---- MODULE Spec2Model ----
(***************************************************************************)
(* Model of src/bot.py: the Afaan Oromo - English translator bot.          *)
(*                                                                         *)
(* Every inbound update is one task of the event loop.  A task runs from   *)
(* one await of the messaging client to the next without interruption, so  *)
(* one step of the model is the code between two awaits: it consumes the   *)
(* result of the awaited call (delivered or raised), runs the handler up   *)
(* to its next await and issues that call.  translator.translate and the   *)
(* feedback file write are synchronous and happen inside a step.           *)
(*                                                                         *)
(* A Python str is a sequence of chunks, each chunk a piece of text that   *)
(* holds neither "_" nor "-", or one of these two characters itself.       *)
(* The timestamp of a history entry is not modelled: no handler reads it   *)
(* except to print it.                                                     *)
(***************************************************************************)
EXTENDS Integers, Sequences, FiniteSets, Bags, TLC

\* ------------------------------------------------------------------ bounds
MaxTasks == 2         \* updates being handled at the same time
SerialTasks == 1      \* updates being handled at the same time in SpecLedger, SpecStore, SpecUsers
MaxIds == 2           \* uuids drawn in one behaviour of Spec
RatingIds == 4        \* uuids drawn in one behaviour of SpecRating
MaxFeedback == 1      \* lines written to the feedback file
LedgerIds == 6        \* uuids drawn in one behaviour of SpecLedger
StoreIds == 102       \* uuids drawn in one behaviour of SpecStore
MaxUpdates == 4       \* requests received in one behaviour of SpecIngress
UsersIds == 3         \* uuids drawn in one behaviour of SpecUsers
CommandIds == 1       \* uuids drawn in one behaviour of SpecCommands

\* ------------------------------------------------------- program constants
HISTORY_LIMIT == 5
RECORD_LIMIT == 100
RATING_FIELDS == 5

Users == {"u1", "u2"}

None == "None"

SUPPORTED_LANGUAGES == {"om", "en"}

\* the rows of MENU_OPTIONS
OM_TO_EN == "Afaan Oromo to English"
EN_TO_OM == "English to Afaan Oromo"
RESTART == "Restart (/start)"
HELP == "Help (/help)"
HISTORY == "History (/history)"

MENU_OPTIONS == {OM_TO_EN, EN_TO_OM, RESTART, HELP, HISTORY}

MenuStates == {"awaiting_menu_choice", "tutorial_menu_choice"}
TextStates == {"awaiting_text", "tutorial_awaiting_text"}

\* query.from_user.username or "Unknown"
Username(u) == IF u = "u1" THEN "alice" ELSE "Unknown"

\* --------------------------------------------------------------- sequences
RECURSIVE Join(_, _)
\* sep.join(parts)
Join(parts, sep) ==
    IF Len(parts) = 0 THEN <<>>
    ELSE IF Len(parts) = 1 THEN Head(parts)
    ELSE Head(parts) \o <<sep>> \o Join(Tail(parts), sep)

RECURSIVE SplitFrom(_, _, _)
\* the fields of s after the field cur that is being read
SplitFrom(s, sep, cur) ==
    IF Len(s) = 0 THEN <<cur>>
    ELSE IF Head(s) = sep THEN <<cur>> \o SplitFrom(Tail(s), sep, <<>>)
    ELSE SplitFrom(Tail(s), sep, Append(cur, Head(s)))

\* str.split(sep)
Split(s, sep) == SplitFrom(s, sep, <<>>)

\* s[-n:] of a list
LastN(s, n) == IF Len(s) <= n THEN s ELSE SubSeq(s, Len(s) - n + 1, Len(s))

\* s[:n] of a list
FirstN(s, n) == IF Len(s) <= n THEN s ELSE SubSeq(s, 1, n)

\* ------------------------------------------------------------------- codec
\* str(uuid.uuid4()): groups of hex digits joined by hyphens; the n-th draw
Uuid(n) == <<ToString(n), "-", "4a">>

\* f"rate_good_{source_lang}_{target_lang}_{translation_id}_0"
CallbackData(tag, source_lang, target_lang, translation_id) ==
    Join(<< <<"rate">>, <<tag>>, <<source_lang>>, <<target_lang>>,
            translation_id, <<"0">> >>, "_")

\* CallbackQueryHandler(handle_rating, pattern=r"^rate_(good|poor)_.*")
MatchesRatingPattern(data) ==
    /\ Len(data) >= 4
    /\ data[1] = "rate"
    /\ data[2] = "_"
    /\ data[3] \in {"good", "poor"}
    /\ data[4] = "_"

\* Keyboard with the data of the first button on both
KeyboardOneData(source_lang, target_lang, translation_id) ==
    << CallbackData("good", source_lang, target_lang, translation_id),
       CallbackData("good", source_lang, target_lang, translation_id) >>

\* the two buttons of a translation reply
Keyboard(source_lang, target_lang, translation_id) ==
    << CallbackData("good", source_lang, target_lang, translation_id),
       CallbackData("poor", source_lang, target_lang, translation_id) >>

\* ---------------------------------------------------------- the environment
\* text of a message after strip(); "" is a message of blanks
Texts == MENU_OPTIONS \cup {"Salaam", ""}

Failure == "Failure"

\* what translator.translate gives: result["translatedText"], or it raises
TranslateResults == {"Hello", Failure}

\* ------------------------------------------------------------------- state
VARIABLES
    user_data,    \* context.user_data of every user
    tasks,        \* the updates being handled, each standing at an await
    issued,       \* uuids drawn so far
    feedback,     \* the lines of FEEDBACK_FILE
    appended,     \* every history entry ever appended, per user (history only)
    uses,         \* translations made of the pending pair since it was chosen
    ingress       \* the requests webhook received and the responses it gave

vars == <<user_data, tasks, issued, feedback, appended, uses, ingress>>

\* a user_data with no key set; has_history tells whether the key
\* "translation_history" is set
NewSession ==
    [state |-> None, source_lang |-> None, target_lang |-> None,
     has_history |-> FALSE, translation_history |-> <<>>,
     translation_records |-> <<>>]

\* StateOf without the default
StateOfNoDefault(s) == s.state

\* context.user_data.get("state", "awaiting_menu_choice")
StateOf(s) == IF s.state = None THEN "awaiting_menu_choice" ELSE s.state

\* context.user_data.get("translation_history", [])
HistoryOf(s) == IF s.has_history THEN s.translation_history ELSE <<>>

HistoryEntry(source_lang, target_lang, text, translated_text) ==
    [source_lang |-> source_lang, target_lang |-> target_lang,
     original_text |-> text, translated_text |-> translated_text]

TranslationRecord(translation_id, text, translated_text, source_lang, target_lang) ==
    [id |-> translation_id, original_text |-> text,
     translated_text |-> translated_text,
     source_lang |-> source_lang, target_lang |-> target_lang]

\* the keys of the records dict
RecordIds(records) == {records[i].id : i \in 1..Len(records)}

\* translations.get(translation_id)
Lookup(records, translation_id) ==
    IF translation_id \in RecordIds(records)
    THEN (CHOOSE i \in 1..Len(records) : records[i].id = translation_id)
    ELSE 0

\* --------------------------------------------------- calls of the client
NoCall == [api |-> None, text |-> None, markup |-> <<>>]

ReplyText(text) == [api |-> "reply_text", text |-> text, markup |-> <<>>]

\* ReplyMarkup that sends the text without its keyboard
ReplyMarkupDropsKeyboard(text, markup) ==
    [api |-> "reply_text", text |-> text, markup |-> <<>>]

\* reply_text(text, reply_markup=markup)
ReplyMarkup(text, markup) == [api |-> "reply_text", text |-> text, markup |-> markup]

Answer(text) == [api |-> "answer", text |-> text, markup |-> <<>>]

EditMessageText(text) == [api |-> "edit_message_text", text |-> text, markup |-> <<>>]

AnswerInline(markup) == [api |-> "answer_inline", text |-> "results", markup |-> markup]

\* ------------------------------------------------------------------ tasks
\* a task: whose update it is, where its handler stands, the call it awaits
\* and what it logged on the way there
Task(u, handler, e) ==
    [user |-> u, handler |-> handler, pc |-> e.pc,
     is_tutorial |-> e.is_tutorial, call |-> e.call, log |-> e.log]

\* what the code between two awaits does: the session it leaves, where the
\* task stands (pc, or "done" when the update is dealt with), the call it
\* issued, the line it logged, the uuids it drew, the history entries it
\* appended and the feedback lines it wrote
Effect(s, pc, is_tutorial, call, log) ==
    [session |-> s, pc |-> pc, is_tutorial |-> is_tutorial, call |-> call,
     log |-> log, drew |-> 0, entries |-> <<>>, lines |-> <<>>, used |-> FALSE,
     chose |-> FALSE]

\* ---------------------------------------------------------------- ledger
\* AppendHistory that cuts the list at its end
AppendHistoryKeepsOldest(history, entries) ==
    FirstN(history \o entries, HISTORY_LIMIT)

\* history.append(entry); user_data["translation_history"] = history[-HISTORY_LIMIT:]
AppendHistory(history, entries) == LastN(history \o entries, HISTORY_LIMIT)

\* translation_records[translation_id] = record: a dict keeps insertion order
PutRecord(records, record) ==
    IF record.id \in RecordIds(records)
    THEN [records EXCEPT ![Lookup(records, record.id)] = record]
    ELSE Append(records, record)

\* CleanUp that removes the record put last
CleanUpRemovesNewest(records) ==
    IF Len(records) > RECORD_LIMIT THEN FirstN(records, Len(records) - 1)
    ELSE records

\* if len(translations) > 100: translations.pop(next(iter(translations)))
CleanUp(records) ==
    IF Len(records) > RECORD_LIMIT THEN Tail(records) ELSE records

\* --------------------------------------------------------------- handlers
\* start, up to its await
start(s) == Effect(s, "start", FALSE, ReplyMarkup("welcome", <<"menu">>), None)

\* help_command, up to its await
help_command(s) == Effect(s, "help", FALSE, ReplyMarkup("help", <<"menu">>), None)

\* history that does not look whether the list is empty
historyAlwaysLists(s) ==
    Effect(s, "history", FALSE, ReplyText("recent_translations"), None)

\* history, up to its await
history(s) ==
    IF HistoryOf(s) = <<>>
    THEN Effect(s, "history", FALSE, ReplyText("no_translations_yet"), None)
    ELSE Effect(s, "history", FALSE, ReplyText("recent_translations"), None)

\* the prompt of a direction branch: it names the direction, and the
\* tutorial adds a hint
Prompt(source_lang, is_tutorial) ==
    IF source_lang = "om"
    THEN (IF is_tutorial THEN "enter_text_om_en_tutorial" ELSE "enter_text_om_en")
    ELSE (IF is_tutorial THEN "enter_text_en_om_tutorial" ELSE "enter_text_en_om")

\* the direction branches of handle_message
ChooseDirection(s, source_lang, target_lang, is_tutorial) ==
    [Effect([s EXCEPT !.source_lang = source_lang, !.target_lang = target_lang],
            "direction", is_tutorial,
            ReplyText(Prompt(source_lang, is_tutorial)), None)
     EXCEPT !.chose = TRUE]

\* the except branch of handle_message, up to its await
TranslationError(s) ==
    Effect(s, "error", FALSE, ReplyText("translation_error"), "Translation error")

\* Translate that appends the history entry before it has the translation
TranslateAppendsFirst(s, text, tr, n, is_tutorial) ==
    LET entry == HistoryEntry(s.source_lang, s.target_lang, text, tr)
    IN  TranslationError(
            [s EXCEPT !.has_history = TRUE,
                      !.translation_history = AppendHistory(HistoryOf(s), <<entry>>)])

\* the try block of handle_message, up to the reply with the rating buttons
Translate(s, text, tr, n, is_tutorial) ==
    LET source_lang == s.source_lang
        target_lang == s.target_lang
    IN  IF \/ tr = Failure
           \/ source_lang \notin SUPPORTED_LANGUAGES
           \/ target_lang \notin SUPPORTED_LANGUAGES
        THEN TranslationError(s)
        ELSE LET entry == HistoryEntry(source_lang, target_lang, text, tr)
                 translation_id == Uuid(n + 1)
                 record == TranslationRecord(translation_id, text, tr,
                                             source_lang, target_lang)
                 after ==
                     [s EXCEPT
                        !.has_history = TRUE,
                        !.translation_history = AppendHistory(HistoryOf(s), <<entry>>),
                        !.translation_records = PutRecord(@, record)]
             IN  [Effect(after, "result", is_tutorial,
                         ReplyMarkup("result",
                                     Keyboard(source_lang, target_lang, translation_id)),
                         None)
                  EXCEPT !.drew = 1, !.entries = <<entry>>, !.used = TRUE]

\* handle_message without the check for an empty text
handle_messageNoEmptyCheck(s, text, tr, n) ==
    LET user_state == StateOf(s)
    IN  IF user_state \in MenuStates
        THEN LET is_tutorial == user_state = "tutorial_menu_choice"
             IN  IF text = OM_TO_EN THEN ChooseDirection(s, "om", "en", is_tutorial)
                 ELSE IF text = EN_TO_OM THEN ChooseDirection(s, "en", "om", is_tutorial)
                 ELSE IF text = RESTART THEN start(s)
                 ELSE IF text = HELP THEN help_command(s)
                 ELSE IF text = HISTORY THEN history(s)
                 ELSE Effect(s, "invalid", FALSE,
                             ReplyMarkup("select_valid_option", <<"menu">>), None)
        ELSE IF user_state \in TextStates
        THEN Translate(s, text, tr, n, user_state = "tutorial_awaiting_text")
        ELSE Effect(s, "done", FALSE, NoCall, None)

\* handle_message, up to its first await; tr is what the translator gives
\* and n the number of uuids drawn before
handle_message(s, text, tr, n) ==
    LET user_state == StateOf(s)
    IN  IF user_state \in MenuStates
        THEN LET is_tutorial == user_state = "tutorial_menu_choice"
             IN  IF text = OM_TO_EN THEN ChooseDirection(s, "om", "en", is_tutorial)
                 ELSE IF text = EN_TO_OM THEN ChooseDirection(s, "en", "om", is_tutorial)
                 ELSE IF text = RESTART THEN start(s)
                 ELSE IF text = HELP THEN help_command(s)
                 ELSE IF text = HISTORY THEN history(s)
                 ELSE Effect(s, "invalid", FALSE,
                             ReplyMarkup("select_valid_option", <<"menu">>), None)
        ELSE IF user_state \in TextStates
        THEN LET is_tutorial == user_state = "tutorial_awaiting_text"
             IN  IF text = ""
                 THEN Effect(s, "empty", FALSE, ReplyText("enter_non_empty"), None)
                 ELSE Translate(s, text, tr, n, is_tutorial)
        ELSE Effect(s, "done", FALSE, NoCall, None)

\* inline_query, up to its await; tr is what the translator gives, for
\* both directions
inline_query(s, query, tr, n) ==
    IF query = "" THEN Effect(s, "done", FALSE, NoCall, None)
    ELSE IF tr = Failure
    THEN Effect(s, "done", FALSE, NoCall, "Inline translation error")
    ELSE LET om_to_en == HistoryEntry("om", "en", query, tr)
             en_to_om == HistoryEntry("en", "om", query, tr)
             translation_id_om == Uuid(n + 1)
             translation_id_en == Uuid(n + 2)
             record_om == TranslationRecord(translation_id_om, query, tr, "om", "en")
             record_en == TranslationRecord(translation_id_en, query, tr, "en", "om")
             after ==
                 [s EXCEPT
                    !.has_history = TRUE,
                    !.translation_history =
                        AppendHistory(HistoryOf(s), <<om_to_en, en_to_om>>),
                    !.translation_records =
                        PutRecord(PutRecord(@, record_om), record_en)]
         IN  [Effect(after, "answer_inline", FALSE,
                     AnswerInline(Keyboard("om", "en", translation_id_om)
                                  \o Keyboard("en", "om", translation_id_en)),
                     None)
              EXCEPT !.drew = 2, !.entries = <<om_to_en, en_to_om>>]

\* the line handle_rating writes to the feedback file
FeedbackLine(u, rating, source_lang, target_lang, translation) ==
    [user_id |-> u, username |-> Username(u), rating |-> rating,
     source_lang |-> source_lang, target_lang |-> target_lang,
     original_text |-> translation.original_text,
     translated_text |-> translation.translated_text]

\* the except branch of handle_rating, up to its await
RatingError(s) == Effect(s, "rating_error", FALSE, Answer("rating_error"), "Rating error")

\* data.split("_") and the count of its parts
Decode(data) ==
    LET parts == Split(data, "_")
    IN  IF Len(parts) # RATING_FIELDS THEN <<>> ELSE parts

\* where handle_rating stands after the feedback write: query.message is
\* None when the button is on a message sent in inline mode
Thanks(message) == IF message THEN "thanks" ELSE "thanks_inline"

\* handle_rating that writes the feedback line before it looks the record up
handle_ratingWritesFirst(s, u, data, written, message) ==
    LET parts == Decode(data)
    IN  IF parts = <<>> THEN RatingError(s)
        ELSE [RatingError(s) EXCEPT !.lines =
                 <<[user_id |-> u, username |-> Username(u), rating |-> parts[1],
                    source_lang |-> parts[2], target_lang |-> parts[3],
                    original_text |-> None, translated_text |-> None]>>]

\* handle_rating that lets the failure of the write reach the outer except
handle_ratingWriteRaises(s, u, data, written, message) ==
    LET parts == Decode(data)
        at == IF parts = <<>> THEN 0 ELSE Lookup(s.translation_records, parts[4])
    IN  IF at = 0 \/ ~written THEN RatingError(s)
        ELSE [Effect(s, Thanks(message), FALSE, Answer("thanks"), None)
              EXCEPT !.lines =
                  <<FeedbackLine(u, parts[1], parts[2], parts[3],
                                 s.translation_records[at])>>]

\* handle_rating, up to its first await; written tells whether the feedback
\* file could be written, message whether the update has query.message
handle_rating(s, u, data, written, message) ==
    LET parts == Decode(data)
    IN  IF parts = <<>> THEN RatingError(s)
        ELSE LET rating == parts[1]
                 source_lang == parts[2]
                 target_lang == parts[3]
                 translation_id == parts[4]
                 translations == s.translation_records
                 at == Lookup(translations, translation_id)
             IN  IF at = 0 THEN RatingError(s)
                 ELSE IF written
                 THEN [Effect(s, Thanks(message), FALSE, Answer("thanks"), None)
                       EXCEPT !.lines =
                           <<FeedbackLine(u, rating, source_lang, target_lang,
                                          translations[at])>>]
                 ELSE Effect(s, Thanks(message), FALSE, Answer("thanks"),
                             "Failed to write to feedback file")

\* the menu prompt that follows the try statement of handle_message
SelectOption(s) ==
    Effect(s, "menu", FALSE,
           ReplyMarkup("select_translation_option", <<"menu">>), None)

\* the last lines of handle_message
BackToMenu(s) ==
    [s EXCEPT !.state = "awaiting_menu_choice",
              !.source_lang = None, !.target_lang = None]

\* the handler returned
Return(s) == Effect(s, "done", FALSE, NoCall, None)

\* an exception leaves webhook: aiohttp answers the request with status 500
Raise(s) == Effect(s, "raised", FALSE, NoCall, None)

\* error_handler that lets the exception go on, out of process_update
error_handlerRaises(s, handler) == Raise(s)

\* an exception left the handler: process_update hands it to error_handler,
\* which replies when the update is a message
error_handler(s, handler) ==
    IF handler \in {"handle_message", "start", "help_command", "history"}
    THEN Effect(s, "error_handler", FALSE, ReplyText("unexpected_error"),
                "Update caused error")
    ELSE Effect(s, "done", FALSE, NoCall, "Update caused error")

\* the code of a handler from the await the task t stands at to the next,
\* delivered telling whether the awaited call returned or raised
Resume(s, t, delivered) ==
    CASE t.pc = "direction" ->
           IF delivered
           THEN Return([s EXCEPT !.state = IF t.is_tutorial
                                           THEN "tutorial_awaiting_text"
                                           ELSE "awaiting_text"])
           ELSE error_handler(s, t.handler)
      [] t.pc = "start" ->
           IF delivered
           THEN Return([s EXCEPT !.state = "awaiting_menu_choice",
                                 !.has_history = TRUE,
                                 !.translation_history = HistoryOf(s)])
           ELSE error_handler(s, t.handler)
      [] t.pc = "help" ->
           IF delivered
           THEN Return([s EXCEPT !.state = "tutorial_menu_choice"])
           ELSE error_handler(s, t.handler)
      [] t.pc = "history" ->
           IF delivered THEN Return(s) ELSE error_handler(s, t.handler)
      [] t.pc = "invalid" ->
           IF delivered
           THEN Return([s EXCEPT !.state = "awaiting_menu_choice"])
           ELSE error_handler(s, t.handler)
      [] t.pc = "empty" ->
           IF delivered THEN Return(s) ELSE error_handler(s, t.handler)
      [] t.pc = "result" ->
           IF ~delivered THEN TranslationError(s)
           ELSE IF t.is_tutorial
           THEN Effect(s, "tutorial", TRUE, ReplyText("tutorial_complete"), None)
           ELSE SelectOption(s)
      [] t.pc = "tutorial" ->
           IF delivered THEN SelectOption(s)
           ELSE TranslationError(s)
      [] t.pc = "error" ->
           IF delivered THEN SelectOption(s)
           ELSE error_handler(s, t.handler)
      [] t.pc = "menu" ->
           IF delivered THEN Return(BackToMenu(s)) ELSE error_handler(s, t.handler)
      [] t.pc = "answer_inline" ->
           IF delivered THEN Return(s)
           ELSE Effect(s, "done", FALSE, NoCall, "Inline translation error")
      [] t.pc = "thanks" ->
           IF delivered
           THEN Effect(s, "edit", FALSE, EditMessageText("rated"), None)
           ELSE RatingError(s)
      [] t.pc = "thanks_inline" -> RatingError(s)
      [] t.pc = "edit" ->
           IF delivered
           THEN Return([s EXCEPT !.translation_records = CleanUp(@)])
           ELSE RatingError(s)
      [] t.pc = "rating_error" ->
           IF delivered THEN Return(s) ELSE error_handler(s, t.handler)
      [] t.pc = "error_handler" -> Return(s)

\* ----------------------------------------------------------------- actions
\* Apply with one user_data for all users
ApplyAllUsers(u, e, after) ==
    /\ user_data' = [v \in Users |-> e.session]
    /\ tasks' = after
    /\ issued' = issued + e.drew
    /\ feedback' = feedback \o e.lines
    /\ appended' = [appended EXCEPT ![u] = @ \o e.entries]
    /\ uses' = [uses EXCEPT ![u] = IF e.chose THEN 0
                                   ELSE IF e.used THEN @ + 1 ELSE @]

\* the state after a step of user u that has the effect e, the tasks being
\* those of after
Apply(u, e, after) ==
    /\ user_data' = [user_data EXCEPT ![u] = e.session]
    /\ tasks' = after
    /\ issued' = issued + e.drew
    /\ feedback' = feedback \o e.lines
    /\ appended' = [appended EXCEPT ![u] = @ \o e.entries]
    /\ uses' = [uses EXCEPT ![u] = IF e.chose THEN 0
                                   ELSE IF e.used THEN @ + 1 ELSE @]

\* the tasks with one more, unless its update is dealt with already
Started(u, handler, e) ==
    IF e.pc \in {"done", "raised"} THEN tasks
    ELSE tasks (+) SetToBag({Task(u, handler, e)})

\* the requests and responses of webhook, where they are recorded: a request
\* is answered when process_update returns (return web.Response(), status
\* 200) or when an exception leaves webhook (status 500); how tells the await
\* the handler stood at and whether the call was delivered
Responded(e, received, how) ==
    IF ~ingress.on THEN ingress
    ELSE [on |-> TRUE,
          received |-> ingress.received + received,
          ok |-> ingress.ok + (IF e.pc = "done" THEN 1 ELSE 0),
          errors |-> ingress.errors + (IF e.pc = "raised" THEN 1 ELSE 0),
          ends |-> IF e.pc \in {"done", "raised"}
                   THEN ingress.ends \cup {how} ELSE ingress.ends]

\* webhook: an update of user u is received and process_update runs its
\* handler up to the first await, within the bounds b of the specification
Webhook(u, handler, e, b) ==
    /\ BagCardinality(tasks) < b.tasks
    /\ issued + e.drew <= b.ids
    /\ Len(feedback) + Len(e.lines) <= b.lines
    /\ ingress.on => ingress.received < MaxUpdates
    /\ Apply(u, e, Started(u, handler, e))
    /\ ingress' = Responded(e, 1, <<handler, "", TRUE>>)

\* request.json() or Update.de_json raises: the body is no update
Malformed(u, b) == Webhook(u, "webhook", Raise(user_data[u]), b)

\* CommandHandler("start", start)
Start(u, b) == Webhook(u, "start", start(user_data[u]), b)

\* CommandHandler("help", help_command)
HelpCommand(u, b) == Webhook(u, "help_command", help_command(user_data[u]), b)

\* CommandHandler("history", history)
History(u, b) == Webhook(u, "history", history(user_data[u]), b)

\* MessageHandler(filters.TEXT & ~filters.COMMAND, handle_message)
HandleMessage(u, text, tr, b) ==
    Webhook(u, "handle_message", handle_message(user_data[u], text, tr, issued), b)

\* InlineQueryHandler(inline_query)
InlineQuery(u, query, tr, b) ==
    Webhook(u, "inline_query", inline_query(user_data[u], query, tr, issued), b)

\* CallbackQueryHandler(handle_rating, pattern=r"^rate_(good|poor)_.*")
HandleRating(u, data, written, message, b) ==
    /\ MatchesRatingPattern(data)
    /\ Webhook(u, "handle_rating",
               handle_rating(user_data[u], u, data, written, message), b)

\* the awaited call of the task t returns or raises, and the task runs on to
\* its next await
Continue(t, delivered) ==
    /\ BagIn(t, tasks)
    /\ LET e == Resume(user_data[t.user], t, delivered)
       IN  /\ Apply(t.user, e,
                    Started(t.user, t.handler, e) (-) SetToBag({t}))
           /\ ingress' = Responded(e, 0, <<t.handler, t.pc, delivered>>)

\* --------------------------------------------------------- specifications
Init ==
    /\ user_data = [u \in Users |-> NewSession]
    /\ tasks = EmptyBag
    /\ issued = 0
    /\ feedback = <<>>
    /\ appended = [u \in Users |-> <<>>]
    /\ uses = [u \in Users |-> 0]
    /\ ingress = [on |-> FALSE, received |-> 0, ok |-> 0, errors |-> 0, ends |-> {}]

\* the texts user u may send: while a text is awaited the menu keyboard is
\* removed (ReplyKeyboardRemove), so the user types
TextsOf(u) ==
    IF StateOf(user_data[u]) \in TextStates THEN {"Salaam", ""}
    ELSE MENU_OPTIONS \cup {"Salaam"}

\* the outcomes of the translator that make a difference to the update
ResultsOf(u, text) ==
    IF StateOf(user_data[u]) \in TextStates /\ text # ""
    THEN TranslateResults ELSE {Failure}

\* Spec: the dialogue of one user, whose updates are handled concurrently
SpecBounds == [tasks |-> MaxTasks, ids |-> MaxIds, lines |-> 0]

Next ==
    \/ Start("u1", SpecBounds)
    \/ HelpCommand("u1", SpecBounds)
    \/ History("u1", SpecBounds)
    \/ \E text \in TextsOf("u1") : \E tr \in ResultsOf("u1", text) :
          HandleMessage("u1", text, tr, SpecBounds)
    \/ \E t \in BagToSet(tasks), delivered \in BOOLEAN : Continue(t, delivered)

Spec == Init /\ [][Next]_vars

\* SpecText: the menu choices and texts of one user, and the /help command
\* that starts the tutorial, handled concurrently
NextText ==
    \/ HelpCommand("u1", SpecBounds)
    \/ \E text \in TextsOf("u1") : \E tr \in ResultsOf("u1", text) :
          HandleMessage("u1", text, tr, SpecBounds)
    \/ \E t \in BagToSet(tasks), delivered \in BOOLEAN : Continue(t, delivered)

SpecText == Init /\ [][NextText]_vars

\* ------------------------------------------- claims under Spec and SpecText
\* the session of the user whose dialogue Spec follows
Session == user_data["u1"]

\* the tasks that stand in the text branch of handle_message
TextBranch == {"result", "tutorial", "error", "menu"}

\* the handler of task t returns in this step
Returns(t) == \E delivered \in BOOLEAN :
    /\ Continue(t, delivered)
    /\ tasks' = tasks (-) SetToBag({t})

\* the task this step starts
StartedTask(t) == tasks' = tasks (+) SetToBag({t})

\* C5: no two text messages of one user are translated from a single choice
\* of direction: every translation consumes a pending pair of its own
ExclusivePendingPair == \A u \in Users : uses[u] <= 1

\* the handling of the text by task t ends in this step: handle_message
\* returns, or an exception leaves it and error_handler takes the update
Ends(t) == \E delivered \in BOOLEAN :
    /\ Continue(t, delivered)
    /\ \A t2 \in BagToSet(tasks') :
          tasks' = (tasks (-) SetToBag({t})) (+) SetToBag({t2})
          => t2.pc = "error_handler"

\* C6: whenever the handling of a non-empty text received in a text state
\* ends, the state is awaiting_menu_choice and no language is pending,
\* whatever the translator gave
ReturnToMenu ==
    [][\A t \in BagToSet(tasks) :
          (t.pc \in TextBranch /\ Ends(t))
          => /\ Session'.state = "awaiting_menu_choice"
             /\ Session'.source_lang = None
             /\ Session'.target_lang = None
      ]_vars

\* the ids of every record any user holds
AllRecordIds == UNION {RecordIds(user_data[u].translation_records) : u \in Users}

\* the callback data holds the id between two of its underscores
References(data, translation_id) ==
    \E i \in 1..Len(data) :
       /\ i + Len(translation_id) + 1 <= Len(data)
       /\ data[i] = "_"
       /\ SubSeq(data, i + 1, i + Len(translation_id)) = translation_id
       /\ data[i + Len(translation_id) + 1] = "_"

RestartResets ==
    [][\A t \in BagToSet(tasks) :
          (t.pc = "start" /\ Continue(t, TRUE))
          => /\ Session'.state = "awaiting_menu_choice"
             /\ HistoryOf(Session') = <<>>
      ]_vars

\* C13: the state every handler reads is one of the four states, and a
\* session in which no state is set yet handles every message as the same
\* session in awaiting_menu_choice does
StateDefined ==
    \A u \in Users :
       LET s == user_data[u]
           menu == [s EXCEPT !.state = "awaiting_menu_choice"]
       IN  /\ StateOf(s) \in MenuStates \cup TextStates
           /\ s.state \in MenuStates \cup TextStates \cup {None}
           /\ s.state = None
              => \A text \in Texts, tr \in TranslateResults :
                    handle_message(s, text, tr, issued) =
                       [handle_message(menu, text, tr, issued)
                        EXCEPT !.session.state = None]

\* C13 witness: the first message of a session, a choice of direction, is
\* being answered and no state is set yet
FirstMessageChoosesDirection ==
    \E t \in BagToSet(tasks) :
       /\ t.pc = "direction"
       /\ Session.state = None
       /\ Session.source_lang = "om"

\* the pair a direction button stands for
PairOf(text) == IF text = OM_TO_EN THEN <<"om", "en">> ELSE <<"en", "om">>

\* C15: a direction button pressed in a menu state sets the pending pair to
\* its direction, leaves history and records as they are and sends the
\* prompt of the direction; when the prompt is delivered the state becomes
\* awaiting_text (tutorial_awaiting_text from tutorial_menu_choice) with the
\* pending pair that of the button
DirectionChoice ==
    [][\A text \in {OM_TO_EN, EN_TO_OM} :
          LET is_tutorial == StateOf(Session) = "tutorial_menu_choice"
              prompt == ReplyText(Prompt(PairOf(text)[1], is_tutorial))
          IN  /\ (StateOf(Session) \in MenuStates
                  /\ HandleMessage("u1", text, Failure, SpecBounds))
                 => /\ Session' = [Session EXCEPT !.source_lang = PairOf(text)[1],
                                                   !.target_lang = PairOf(text)[2]]
                    /\ appended' = appended
                    /\ \E t \in BagToSet(tasks') : StartedTask(t) /\ t.call = prompt
              /\ \A t \in BagToSet(tasks) :
                    (t.pc = "direction" /\ t.call = prompt /\ Continue(t, TRUE))
                    => /\ Session'.state \in TextStates
                       /\ Session'.source_lang = PairOf(text)[1]
                       /\ Session'.target_lang = PairOf(text)[2]
                       /\ HistoryOf(Session') = HistoryOf(Session)
                       /\ Session'.translation_records = Session.translation_records
      ]_vars

\* C16: a text that is empty after strip(), received in a text state, is
\* answered with the request for a non-empty text and with nothing else: the
\* translator is not called (what it would give makes no difference, nothing
\* is logged, no uuid is drawn), and neither the reply nor its delivery
\* changes the state, the pending pair, the history or the records
EmptyInput ==
    /\ [](StateOf(Session) \in TextStates
          => \A tr \in TranslateResults :
                handle_message(Session, "", tr, issued)
                = handle_message(Session, "", Failure, issued))
    /\ [][/\ (StateOf(Session) \in TextStates
              /\ HandleMessage("u1", "", Failure, SpecBounds))
             => /\ user_data' = user_data
                /\ appended' = appended
                /\ issued' = issued
                /\ uses' = uses
                /\ \E t \in BagToSet(tasks') :
                      /\ StartedTask(t)
                      /\ t.call = ReplyText("enter_non_empty")
                      /\ t.log = None
          /\ \A t \in BagToSet(tasks), delivered \in BOOLEAN :
                (t.pc = "empty" /\ Continue(t, delivered))
                => /\ user_data' = user_data
                   /\ appended' = appended
                   /\ issued' = issued
                   /\ delivered => tasks' = tasks (-) SetToBag({t})
         ]_vars

\* the request for a non-empty text is awaited, in either text state's
\* session with its pending pair
EmptyTextAnswered ==
    /\ StateOf(Session) \in TextStates
    /\ Session.source_lang # None
    /\ \E t \in BagToSet(tasks) :
          t.pc = "empty" /\ t.call = ReplyText("enter_non_empty")

CommandBounds == [tasks |-> MaxTasks, ids |-> CommandIds, lines |-> 0]

NextCommands ==
    \/ HelpCommand("u1", CommandBounds)
    \/ History("u1", CommandBounds)
    \/ \E text \in TextsOf("u1") : \E tr \in ResultsOf("u1", text) :
          HandleMessage("u1", text, tr, CommandBounds)
    \/ \E t \in BagToSet(tasks), delivered \in BOOLEAN : Continue(t, delivered)

SpecCommands == Init /\ [][NextCommands]_vars

PendingPairSet ==
    Session.state \in TextStates
    => <<Session.source_lang, Session.target_lang>> \in {<<"om", "en">>, <<"en", "om">>}

\* ------------------------------------------------------------ SpecRating
\* SpecRating: two users translate inline and press rating buttons, their
\* updates handled concurrently
RatingBounds == [tasks |-> MaxTasks, ids |-> RatingIds, lines |-> MaxFeedback]

\* every record any user holds
AllRecords ==
    UNION {{user_data[u].translation_records[i] :
            i \in 1..Len(user_data[u].translation_records)} : u \in Users}

\* the callback data of the buttons the bot has made so far
ButtonDatas ==
    {CallbackData(tag, r.source_lang, r.target_lang, r.id) :
     tag \in {"good", "poor"}, r \in AllRecords}

\* callback data of five fields, as no button of the bot holds: it names a
\* record that is stored or one that is not
FiveFieldDatas ==
    {Join(<< <<"rate">>, <<"good">>, <<"om">>, id, <<"0">> >>, "_") :
     id \in AllRecordIds \cup {Uuid(0)}}

\* the callback data a client may send: the Good button of a reply of the bot
\* (the user's own or another user's), data of five fields, or cut data
Datas ==
    {data \in ButtonDatas : data[3] = "good"} \cup FiveFieldDatas
    \cup {Join(<< <<"rate">>, <<"poor">>, <<"om">> >>, "_")}

\* the outcomes of the feedback write, and the kinds of message the button
\* is on, that make a difference to the update
WritesOf(u, data) ==
    IF handle_rating(user_data[u], u, data, TRUE, TRUE).pc = "thanks"
    THEN BOOLEAN ELSE {TRUE}

NextRating ==
    \/ \E u \in Users : InlineQuery(u, "Salaam", "Hello", RatingBounds)
    \/ \E u \in Users, data \in Datas : \E written, message \in WritesOf(u, data) :
          HandleRating(u, data, written, message, RatingBounds)
    \/ \E t \in BagToSet(tasks), delivered \in BOOLEAN : Continue(t, delivered)

SpecRating == Init /\ [][NextRating]_vars

\* what every step of HandleRating does to the tasks: it starts a task of
\* handle_rating, unless the update is dealt with at once
RatingStep ==
    \/ tasks' = tasks
    \/ \E t \in BagToSet(tasks') : t.handler = "handle_rating" /\ StartedTask(t)

\* the four fields handle_rating takes from callback data, or <<>> when it
\* raises "Invalid callback_data format"
DecodedFields(data) ==
    IF Decode(data) = <<>> THEN <<>> ELSE SubSeq(Decode(data), 1, 4)

\* C1: the callback data of every rating button on a reply decodes to the
\* rating tag, the language pair and the record id it was made of
CodecRoundTrip ==
    \A t \in BagToSet(tasks) :
       t.pc \in {"result", "answer_inline"}
       => \A k \in 1..Len(t.call.markup) :
             \E tag \in {"good", "poor"}, r \in AllRecords :
                /\ t.call.markup[k] =
                      CallbackData(tag, r.source_lang, r.target_lang, r.id)
                /\ DecodedFields(t.call.markup[k]) =
                      << <<tag>>, <<r.source_lang>>, <<r.target_lang>>, r.id >>

\* the user's own button: callback data made of a record the user holds
OwnButton(u, data) ==
    \E tag \in {"good", "poor"} :
       \E i \in 1..Len(user_data[u].translation_records) :
          LET r == user_data[u].translation_records[i]
          IN  data = CallbackData(tag, r.source_lang, r.target_lang, r.id)

\* the record a button of the bot was made for
ButtonRecord(data) ==
    CHOOSE r \in AllRecords :
       \E tag \in {"good", "poor"} :
          data = CallbackData(tag, r.source_lang, r.target_lang, r.id)

\* C2: a press on the user's own rating button, while the record is stored,
\* appends exactly one feedback line with the record's original and
\* translated text and is answered with the confirmation
RatingFlow ==
    [][RatingStep => \A u \in Users, data \in Datas, message \in BOOLEAN :
          (OwnButton(u, data) /\ HandleRating(u, data, TRUE, message, RatingBounds))
          => /\ Len(feedback') = Len(feedback) + 1
             /\ feedback'[Len(feedback')].original_text =
                   ButtonRecord(data).original_text
             /\ feedback'[Len(feedback')].translated_text =
                   ButtonRecord(data).translated_text
             /\ \E t \in BagToSet(tasks') :
                   StartedTask(t) /\ t.call = Answer("thanks")
      ]_vars

\* the press fails: the data has not five fields, or the fourth names no
\* record of the pressing user
RatingFails(u, data) ==
    LET parts == Split(data, "_")
    IN  \/ Len(parts) # RATING_FIELDS
        \/ parts[4] \notin RecordIds(user_data[u].translation_records)

\* C9: a press whose data does not decode, or names a record the pressing
\* user does not hold, is answered with the error toast, writes no feedback
\* line and leaves every session as it is, up to the end of its handling
FailedRating ==
    [][/\ \A t \in BagToSet(tasks') :
            (t.handler = "handle_rating" /\ StartedTask(t))
            => \A data \in Datas, written, message \in BOOLEAN :
                  (RatingFails(t.user, data)
                   /\ HandleRating(t.user, data, written, message, RatingBounds))
                  => /\ t.pc = "rating_error"
                     /\ t.call = Answer("rating_error")
                     /\ feedback' = feedback
                     /\ user_data' = user_data
       /\ \A t \in BagToSet(tasks), delivered \in BOOLEAN :
            (t.pc = "rating_error" /\ Continue(t, delivered))
            => /\ tasks' = tasks (-) SetToBag({t})
               /\ feedback' = feedback
               /\ user_data' = user_data
      ]_vars

\* C9 witness: a user pressed the button of a record another user holds and
\* the error toast is on its way
ForeignButtonPressed ==
    \E t \in BagToSet(tasks) :
       /\ t.pc = "rating_error"
       /\ t.user = "u2"
       /\ user_data["u2"].translation_records = <<>>
       /\ user_data["u1"].translation_records # <<>>
       /\ feedback = <<>>

\* the press resolves: five fields, the fourth naming a record of the user
RatingResolves(u, data) == ~RatingFails(u, data)

\* C10: when a press resolves to a stored record and the feedback file cannot
\* be written, the failure is logged, no line is written and the handler goes
\* on to the confirmation toast; on a message of a chat it goes on from the
\* toast to the edit of the message and returns without an error toast
WriteFailureSwallowed ==
    [][/\ RatingStep => \A u \in Users, data \in Datas, message \in BOOLEAN :
            (RatingResolves(u, data)
             /\ HandleRating(u, data, FALSE, message, RatingBounds))
            => /\ \E t \in BagToSet(tasks') :
                     /\ StartedTask(t)
                     /\ t.pc = Thanks(message)
                     /\ t.call = Answer("thanks")
                     /\ t.log = "Failed to write to feedback file"
               /\ feedback' = feedback
               /\ user_data' = user_data
       /\ \A t \in BagToSet(tasks) :
            (t.pc = "thanks" /\ Continue(t, TRUE))
            => \E t2 \in BagToSet(tasks') :
                  /\ tasks' = (tasks (-) SetToBag({t})) (+) SetToBag({t2})
                  /\ t2.call = EditMessageText("rated")
       /\ \A t \in BagToSet(tasks) :
            (t.pc = "edit" /\ Continue(t, TRUE))
            => tasks' = tasks (-) SetToBag({t})
      ]_vars

\* C10 witness: the write failed, nothing is in the file and the
\* confirmation toast is on its way
ThanksAfterFailedWrite ==
    \E t \in BagToSet(tasks) :
       /\ t.pc = "thanks"
       /\ t.log = "Failed to write to feedback file"
       /\ t.call = Answer("thanks")
       /\ feedback = <<>>

\* ------------------------------------------------------------ SpecLedger
\* SpecLedger: one user translates from the menu and inline, one update at
\* a time, until LedgerIds records are made
LedgerBounds == [tasks |-> SerialTasks, ids |-> LedgerIds, lines |-> 0]

NextLedger ==
    \/ \E text \in {OM_TO_EN, "Salaam"} : \E tr \in ResultsOf("u1", text) :
             HandleMessage("u1", text, tr, LedgerBounds)
    \/ InlineQuery("u1", "Salaam", "Hello", LedgerBounds)
    \/ \E t \in BagToSet(tasks), delivered \in BOOLEAN : Continue(t, delivered)

SpecLedger == Init /\ [][NextLedger]_vars

\* C4: the history of a user is the last HISTORY_LIMIT entries appended for
\* the user, in the order they were appended, oldest first
HistoryLedger ==
    \A u \in Users :
       /\ Len(HistoryOf(user_data[u])) <= HISTORY_LIMIT
       /\ HistoryOf(user_data[u]) = LastN(appended[u], HISTORY_LIMIT)

\* C4 witness: more than HISTORY_LIMIT entries were appended, of both
\* directions, and the oldest are gone from the history
HistoryOverflowed ==
    /\ Len(appended["u1"]) > HISTORY_LIMIT
    /\ Len(HistoryOf(Session)) = HISTORY_LIMIT
    /\ HistoryOf(Session) # FirstN(appended["u1"], HISTORY_LIMIT)
    /\ HistoryOf(Session)[1] # HistoryOf(Session)[HISTORY_LIMIT]

\* ------------------------------------------------------------- SpecStore
\* SpecStore: one user translates inline and presses rating buttons, one
\* update at a time, until StoreIds records are made
StoreBounds == [tasks |-> SerialTasks, ids |-> StoreIds, lines |-> MaxFeedback]

\* the data of the oldest button of the user, and data of five fields that
\* names the oldest record or the newest
StoreDatas ==
    LET records == Session.translation_records
    IN  IF records = <<>> THEN {}
        ELSE {CallbackData("good", records[1].source_lang, records[1].target_lang,
                           records[1].id)}
             \cup {Join(<< <<"rate">>, <<"good">>, <<"om">>, records[i].id,
                           <<"0">> >>, "_") : i \in {1, Len(records)}}

NextStore ==
    \/ InlineQuery("u1", "Salaam", "Hello", StoreBounds)
    \/ \E data \in StoreDatas : \E written \in WritesOf("u1", data) :
          HandleRating("u1", data, written, TRUE, StoreBounds)
    \/ \E t \in BagToSet(tasks) : Continue(t, TRUE)

SpecStore == Init /\ [][NextStore]_vars

\* C3: the record map of every user holds at most RECORD_LIMIT records
RecordStoreBound ==
    \A u \in Users : Len(user_data[u].translation_records) <= RECORD_LIMIT

\* the draw that gave the earliest of the uuids ids
EarliestDrawn(ids) ==
    CHOOSE n \in 1..issued :
        Uuid(n) \in ids /\ \A m \in 1..(n - 1) : Uuid(m) \notin ids

\* C19: a step removes a record of a user only at the end of a rating of
\* that user, only when more than RECORD_LIMIT records are stored, and then
\* it removes one record, the one whose uuid was drawn (and so inserted)
\* earliest among those stored, whichever record the rating looked up
EvictionOrder ==
    [][\A u \in Users :
          LET ids == RecordIds(user_data[u].translation_records)
              after == RecordIds(user_data'[u].translation_records)
          IN  \/ ids \subseteq after
              \/ /\ Len(user_data[u].translation_records) > RECORD_LIMIT
                 /\ after = ids \ {Uuid(EarliestDrawn(ids))}
                 /\ \E t \in BagToSet(tasks) :
                       t.user = u /\ t.pc = "edit" /\ Continue(t, TRUE)
      ]_vars

\* the record inserted first was evicted at the end of a rating, and the
\* later records are all stored
OldestEvicted ==
    LET records == Session.translation_records
    IN  /\ Len(records) > RECORD_LIMIT
        /\ records[1].id = Uuid(2)
        /\ records[Len(records)].id = Uuid(issued)

\* ------------------------------------------------------------ SpecIngress
\* SpecIngress: the requests of one user, well-formed or not, handled
\* concurrently, with the responses of webhook recorded
InitIngress ==
    /\ user_data = [u \in Users |-> NewSession]
    /\ tasks = EmptyBag
    /\ issued = 0
    /\ feedback = <<>>
    /\ appended = [u \in Users |-> <<>>]
    /\ uses = [u \in Users |-> 0]
    /\ ingress = [on |-> TRUE, received |-> 0, ok |-> 0, errors |-> 0, ends |-> {}]

NextIngress ==
    \/ Malformed("u1", SpecBounds)
    \/ \E text \in TextsOf("u1") : \E tr \in ResultsOf("u1", text) :
          HandleMessage("u1", text, tr, SpecBounds)
    \/ \E tr \in TranslateResults : InlineQuery("u1", "Salaam", tr, SpecBounds)
    \/ \E data \in Datas : HandleRating("u1", data, TRUE, TRUE, SpecBounds)
    \/ \E t \in BagToSet(tasks), delivered \in BOOLEAN : Continue(t, delivered)

SpecIngress == InitIngress /\ [][NextIngress]_vars

\* C11: every request is being handled or was answered; whenever the
\* handling of an update ends, however it ends, webhook answers with the
\* empty response of status 200; a body that is no update is answered with
\* status 500 and changes nothing else, and only such a body is
Acknowledged ==
    /\ [](ingress.received = ingress.ok + ingress.errors + BagCardinality(tasks))
    /\ [][/\ BagCardinality(tasks') < BagCardinality(tasks)
             => ingress'.ok = ingress.ok + 1 /\ ingress'.errors = ingress.errors
          /\ (ingress'.received > ingress.received /\ tasks' = tasks
              /\ ~Malformed("u1", SpecBounds))
             => ingress'.ok = ingress.ok + 1 /\ ingress'.errors = ingress.errors
          /\ Malformed("u1", SpecBounds)
             => /\ ingress'.errors = ingress.errors + 1
                /\ ingress'.ok = ingress.ok
                /\ UNCHANGED <<user_data, tasks, issued, feedback, appended, uses>>
          /\ ingress'.errors > ingress.errors => Malformed("u1", SpecBounds)
         ]_vars

\* C11 witness: a body that was no update was answered with status 500, and
\* answered with status 200 were a rating that failed and a message whose
\* handler an exception left
AllKindsAnswered ==
    /\ ingress.errors >= 1
    /\ ingress.ok >= 2
    /\ <<"handle_rating", "rating_error", TRUE>> \in ingress.ends
    /\ \E delivered \in BOOLEAN :
          <<"handle_message", "error_handler", delivered>> \in ingress.ends

\* -------------------------------------------------------------- SpecUsers
\* SpecUsers: one user sends commands, menu choices and texts, the other
\* inline queries, both press rating buttons, their updates interleaved
UsersBounds == [tasks |-> SerialTasks, ids |-> UsersIds, lines |-> 0]

NextUsers ==
    \/ Start("u1", UsersBounds)
    \/ \E text \in {OM_TO_EN, "Salaam"} : \E tr \in ResultsOf("u1", text) :
          HandleMessage("u1", text, tr, UsersBounds)
    \/ InlineQuery("u2", "Salaam", "Hello", UsersBounds)
    \/ \E u \in Users, data \in FiveFieldDatas : \E written \in WritesOf(u, data) :
          HandleRating(u, data, written, TRUE, UsersBounds)
    \/ \E t \in BagToSet(tasks), delivered \in BOOLEAN : Continue(t, delivered)

SpecUsers == Init /\ [][NextUsers]_vars

\* the step handles an update of user u: a task of u starts, runs on or ends
StepOf(u) ==
    \E t \in BagToSet(tasks) \cup BagToSet(tasks') :
       t.user = u /\ CopiesIn(t, tasks') # CopiesIn(t, tasks)

\* the other user
Other(u) == CHOOSE v \in Users : v # u

\* C14: a step that handles an update of one user leaves the state, pending
\* languages, history and records of the other user as they are, and a
\* press whose data names a record that only the other user holds fails: it
\* is answered with the error toast and writes no feedback line
Isolation ==
    [][\A u \in Users :
          /\ StepOf(u)
             => /\ user_data'[Other(u)] = user_data[Other(u)]
                /\ appended'[Other(u)] = appended[Other(u)]
          /\ user_data'[u] # user_data[u] => StepOf(u)
          /\ \A t \in BagToSet(tasks') :
                (t.user = u /\ t.handler = "handle_rating" /\ StartedTask(t))
                => \A data \in FiveFieldDatas, written \in BOOLEAN :
                      ( /\ Split(data, "_")[4] \in
                              RecordIds(user_data[Other(u)].translation_records)
                        /\ HandleRating(u, data, written, TRUE, UsersBounds) )
                      => t.pc = "rating_error" /\ feedback' = feedback
      ]_vars

\* C14 witness: both users hold records of their own, and a press of one
\* that names a record of the other is being answered with the error toast
ForeignRecordNamed ==
    /\ user_data["u1"].translation_records # <<>>
    /\ user_data["u2"].translation_records # <<>>
    /\ \E t \in BagToSet(tasks) :
          t.handler = "handle_rating" /\ t.pc = "rating_error" /\ t.user = "u2"

====
